---- MODULE Spec2Model ----
(***************************************************************************)
(* Model of the Gemini API-key failover client (src/gemini_api.py) and of  *)
(* the places of the dashboard script (src/main.py) that call it.          *)
(*                                                                         *)
(* Strings are sequences of one-character strings, so that str.strip(),    *)
(* str.startswith() and f-string concatenation are computed, not assumed.  *)
(* Python's None is the one-element sequence <<"None">>, which is no       *)
(* string of characters.                                                   *)
(***************************************************************************)
EXTENDS Integers, Sequences, FiniteSets, TLC

(***************************************************************************)
(* Bounds of the model.                                                    *)
(***************************************************************************)
\* At most this many of the eight slots hold a value in SpecKeys.
MaxFilled == 3
\* At most this many environment slots hold a key in Spec.
MaxEnvKeys == 3
\* At most this many invocations of generate_with_failover per process.
MaxCalls == 2
\* At most this many direct calls of get_api_keys per process.
MaxLoads == 2
\* At most this many runs of the dashboard script per session in SpecUI.
MaxRuns == 5

(***************************************************************************)
(* Program constants.                                                      *)
(***************************************************************************)
\* GEMINI_API_KEY_1 .. GEMINI_API_KEY_4, in each of the two sources.
NumSlots == 4

None == <<"None">>

Slots == 1..NumSlots

(***************************************************************************)
(* Strings.                                                                *)
(***************************************************************************)
Whitespace == {" ", "\t", "\n"}

RECURSIVE LStrip(_)
LStrip(s) ==
    IF s # <<>> /\ Head(s) \in Whitespace THEN LStrip(Tail(s)) ELSE s

RECURSIVE RStrip(_)
RStrip(s) ==
    IF s # <<>> /\ s[Len(s)] \in Whitespace
    THEN RStrip(SubSeq(s, 1, Len(s) - 1))
    ELSE s

\* str.strip()
Strip(s) == RStrip(LStrip(s))

\* str.startswith(p)
StartsWith(s, p) == Len(s) >= Len(p) /\ SubSeq(s, 1, Len(p)) = p

\* p in s, for strings
Contains(s, p) ==
    \E i \in 0..(Len(s) - Len(p)) : SubSeq(s, i + 1, i + Len(p)) = p

\* A string that is empty or consists of whitespace only.
IsBlank(s) == \A i \in 1..Len(s) : s[i] \in Whitespace

\* Python truthiness of an Optional[str]
Truthy(s) == s # None /\ s # <<>>

ERROR_PREFIX == <<"E", "R", "R", "O", "R", ":">>

NO_KEYS == <<"E", "R", "R", "O", "R", ":", " ", "N", "o", " ", "A", "P", "I", " ", "k", "e", "y", "s", " ", "c", "o", "n", "f", "i", "g", "u", "r", "e", "d", ".">>

EMPTY_RESPONSE == <<"E", "R", "R", "O", "R", ":", " ", "E", "m", "p", "t", "y", " ", "r", "e", "s", "p", "o", "n", "s", "e", " ", "f", "r", "o", "m", " ", "m", "o", "d", "e", "l", ".">>

UNEXPECTED == <<"E", "R", "R", "O", "R", ":", " ", "A", "n", " ", "u", "n", "e", "x", "p", "e", "c", "t", "e", "d", " ", "e", "r", "r", "o", "r", " ", "o", "c", "c", "u", "r", "r", "e", "d", ":", " ">>

ALL_LIMITED == <<"E", "R", "R", "O", "R", ":", " ", "A", "l", "l", " ", "A", "P", "I", " ", "k", "e", "y", "s", " ", "a", "r", "e", " ", "c", "u", "r", "r", "e", "n", "t", "l", "y", " ", "r", "a", "t", "e", "-", "l", "i", "m", "i", "t", "e", "d", ".", " ", "P", "l", "e", "a", "s", "e", " ", "w", "a", "i", "t", " ", "a", "n", "d", " ", "t", "r", "y", " ", "a", "g", "a", "i", "n", ".">>

(***************************************************************************)
(* The credential sources.                                                 *)
(***************************************************************************)
KeyA == <<"a">>
KeyB == <<"b">>
KeyC == <<"c">>
KeyD == <<"d">>
BlankKey == <<" ">>

\* What a slot that is present may hold in SpecKeys.
SlotVals == {<<>>, BlankKey, KeyA, KeyB, KeyC}

\* How reading st.secrets behaves: it works, it raises the
\* StreamlitAPIException the loader catches, or it raises another exception
\* (no except clause of get_api_keys names it).
SecretsStates == {"ok", "api_exc", "other_exc"}

VARIABLES
    secrets_state,  \* an element of SecretsStates
    secrets,        \* st.secrets: slot -> string or None (key absent)
    environ,        \* os.environ after load_dotenv(): slot -> string or None
    cache,          \* the st.cache_data entry of get_api_keys
    keys_ret,       \* outcome of the latest direct call of get_api_keys
    reads,          \* how many times the body of get_api_keys ran
    first_ret,      \* outcome of the first call of get_api_keys in the process
    nloads,         \* how many direct calls of get_api_keys were made
    configured,     \* the api_key genai.configure stored last (process-global)
    writer,         \* the invocation whose configure stored it (0: nobody)
    ncalls,         \* how many invocations of generate_with_failover began
    pc,             \* per invocation: where it stands
    file_name,      \* per invocation: the file_name argument
    api_keys,       \* per invocation: the local api_keys
    idx,            \* per invocation: position of the for loop in api_keys
    result,         \* per invocation: how it ended (return value or raise)
    calls,          \* per invocation: the downstream calls made, in order
    ends,           \* per invocation: how each attempt that ended did end
    insights,       \* st.session_state.insights
    df,             \* st.session_state.df: None or the dataset loaded
    uploaded,       \* the file the uploader widget holds, or None
    ui,             \* the script run: "waiting" for an event, or in the "button" handler
    shown           \* what the latest script run rendered in the insights tab

vars == <<secrets_state, secrets, environ, cache, keys_ret, reads, first_ret,
          nloads,
          configured, writer, ncalls, pc, file_name, api_keys, idx, result, calls,
          ends, insights, df, uploaded, ui, shown>>

sources == <<secrets_state, secrets, environ>>
genai == <<configured, writer>>
session == <<insights, df, uploaded, ui, shown>>
locals == <<pc, file_name, api_keys, idx, result, calls, ends>>

\* The invocations that may run; the second one is off unless a
\* specification starts it.
Procs == {1, 2}

NoOutcome == [kind |-> "none", val |-> <<>>]
Return(v) == [kind |-> "return", val |-> v]
Raise(v) == [kind |-> "raise", val |-> v]

NoCache == [valid |-> FALSE, val |-> <<>>]

\* A key of st.session_state that was never set.
Unset == <<"unset">>

\* The insights tab as a script run leaves it: whether the button is there,
\* the text st.markdown rendered and the message st.error rendered.
Shown(b, i, e) == [button |-> b, insights |-> i, error |-> e]
NotShown == Shown(FALSE, None, None)

(***************************************************************************)
(* get_api_keys                                                            *)
(***************************************************************************)
\* Lines 22-28: the four secret slots, inside try/except
\* StreamlitAPIException. A key that is present is added whatever it holds.
SecretKeys(state, sec) ==
    IF state = "ok"
    THEN {sec[i] : i \in {j \in Slots : sec[j] # None}}
    ELSE {}

\* Lines 30-33: the four environment slots, each added when truthy.
EnvKeys(env) == {env[i] : i \in {j \in Slots : Truthy(env[j])}}

\* Lines 21-33: the set the loader collects.
CollectKeys(state, sec, env) == SecretKeys(state, sec) \cup EnvKeys(env)

\* Line 35: [k for k in keys if k]
FilterKeys(S) == {k \in S : Truthy(k)}

\* The orders in which a Python set may be iterated: any of them.
Orderings(S) ==
    {o \in [1..Cardinality(S) -> S] : \A i, j \in DOMAIN o : i # j => o[i] # o[j]}

SecretsError == <<"s", "e", "c", "r", "e", "t", "s">>

\* The outcomes of one run of the body of get_api_keys (lines 14-35).
GetApiKeysBody(state, sec, env) ==
    IF state = "other_exc"
    THEN {Raise(SecretsError)}
    ELSE {Return(o) : o \in Orderings(FilterKeys(CollectKeys(state, sec, env)))}

\* A call of the cached function (line 7): a stored value is returned as it
\* is; otherwise the body runs and a returned value is stored. An exception
\* is not stored.
GetApiKeys(out) ==
    IF cache.valid
    THEN /\ out = Return(cache.val)
         /\ UNCHANGED <<cache, reads>>
         /\ first_ret' = IF first_ret.kind = "none" THEN out ELSE first_ret
    ELSE /\ out \in GetApiKeysBody(secrets_state, secrets, environ)
         /\ reads' = reads + 1
         /\ cache' = IF out.kind = "return"
                     THEN [valid |-> TRUE, val |-> out.val]
                     ELSE cache
         /\ first_ret' = IF first_ret.kind = "none" THEN out ELSE first_ret

\* A direct call by a caller that is not inside generate_with_failover, as
\* the dashboard script makes on every run.
CallGetApiKeys(t) ==
    /\ pc[t] = "idle"
    /\ nloads < MaxLoads
    /\ \E out \in UNION {GetApiKeysBody(secrets_state, secrets, environ),
                         {Return(cache.val)}} :
          /\ GetApiKeys(out)
          /\ keys_ret' = out
    /\ nloads' = nloads + 1
    /\ UNCHANGED <<sources, session, genai, ncalls, locals>>

(***************************************************************************)
(* generate_with_failover                                                  *)
(***************************************************************************)
\* The file_name arguments: None, the empty string, a name.
FileNames == {None, <<>>, <<"f">>}

\* The texts a response may carry: None, empty, blank, plain, padded, and a
\* generated text that itself begins with the error tag.
RespTexts ==
    { None, <<>>, <<" ", "\n">>, <<"o", "k">>, <<" ", "o", "k", "\n">>,
      <<" ">> \o ERROR_PREFIX \o <<" ", "x">> }

\* The message of an exception that is no quota-exhaustion error.
Boom == <<"b", "o", "o", "m">>
ErrMsgs == {Boom}

Call(fn, key, cred) == [fn |-> fn, key |-> key, cred |-> cred]

\* How a step leaves the invocation: where it goes on and what it returned.
Goto(p, i) == [pc |-> p, idx |-> i, result |-> NoOutcome]
Done(r, i) == [pc |-> "done", idx |-> i, result |-> r]

\* A plausible bug: a blank text is taken for a used-up key and the loop
\* goes on.
OnResponseRotateOnBlank(keys, i, text) ==
    LET s == Strip(IF text = None THEN <<>> ELSE text) IN
    IF s # <<>> THEN Done(Return(s), i)
    ELSE IF i < Len(keys) THEN Goto("configure", i + 1)
    ELSE Done(Return(ALL_LIMITED), i)

\* A plausible bug: the text is returned as it came.
OnResponseNoStrip(keys, i, text) ==
    LET s == IF text = None THEN <<>> ELSE text IN
    Done(Return(IF Strip(s) # <<>> THEN s ELSE EMPTY_RESPONSE), i)

\* Line 63: return (resp.text or "").strip() or "ERROR: Empty response ..."
OnResponse(keys, i, text) ==
    LET s == Strip(IF text = None THEN <<>> ELSE text) IN
    Done(Return(IF s # <<>> THEN s ELSE EMPTY_RESPONSE), i)

\* A plausible bug: the exhausted list is reported as an empty one.
OnQuotaNoKeys(keys, i) ==
    IF i < Len(keys) THEN Goto("configure", i + 1)
    ELSE Done(Return(NO_KEYS), i)

\* Lines 64-66 and 70: continue with the next key; after the last one the
\* loop ends and line 70 returns.
OnQuota(keys, i) ==
    IF i < Len(keys) THEN Goto("configure", i + 1)
    ELSE Done(Return(ALL_LIMITED), i)

\* A plausible bug: every exception moves on to the next key.
OnErrorRotates(keys, i, msg) == OnQuota(keys, i)

\* A plausible bug: the message is returned without the error tag.
OnErrorBare(keys, i, msg) == Done(Return(msg), i)

\* Lines 67-68: return f"ERROR: An unexpected error occurred: {e}"
OnError(keys, i, msg) == Done(Return(UNEXPECTED \o msg), i)

\* A plausible bug: the empty list is not checked before the loop.
AfterKeysNoCheck(out) ==
    IF out.kind = "raise" THEN Done(out, 0)
    ELSE IF out.val = <<>> THEN Done(Return(ALL_LIMITED), 0)
    ELSE Goto("configure", 1)

\* Lines 43-48: an exception of get_api_keys leaves the function; an empty
\* list returns at line 45; otherwise the loop starts at the first key.
AfterKeys(out) ==
    IF out.kind = "raise" THEN Done(out, 0)
    ELSE IF out.val = <<>> THEN Done(Return(NO_KEYS), 0)
    ELSE Goto("configure", 1)

\* What a downstream call does: it returns, it raises ResourceExhausted, it
\* raises another exception, or (generate_content) it returns a response.
Ok == [kind |-> "ok", val |-> <<>>]
Quota == [kind |-> "quota", val |-> <<>>]
Other(msg) == [kind |-> "other", val |-> msg]
Text(text) == [kind |-> "text", val |-> text]

\* Lines 49-68: the try statement around one attempt. A step that returns
\* goes on to the next step; the except clauses and line 63 decide the rest.
Handle(keys, i, ev, nextpc) ==
    CASE ev.kind = "ok" -> Goto(nextpc, i)
      [] ev.kind = "quota" -> OnQuota(keys, i)
      [] ev.kind = "other" -> OnError(keys, i, ev.val)
      [] ev.kind = "text" -> OnResponse(keys, i, ev.val)

\* One step of the attempt of invocation t with the current key: the call
\* fn is made and ends as ev says.
Step(t, fn, ev, nextpc) ==
    LET nxt == Handle(api_keys[t], idx[t], ev, nextpc) IN
    /\ pc' = [pc EXCEPT ![t] = nxt.pc]
    /\ idx' = [idx EXCEPT ![t] = nxt.idx]
    /\ result' = [result EXCEPT ![t] = nxt.result]
    /\ calls' = [calls EXCEPT
                   ![t] = Append(@, Call(fn, api_keys[t][idx[t]], configured'))]
    /\ ends' = [ends EXCEPT
                  ![t] = IF ev.kind = "ok" THEN @
                         ELSE Append(@, [step |-> fn, kind |-> ev.kind,
                                         val |-> ev.val])]

\* Lines 37-45: the call begins, loads the keys and checks them.
Invoke(t) ==
    /\ pc[t] = "idle"
    /\ ncalls < MaxCalls
    /\ ncalls' = ncalls + 1
    /\ \E fname \in FileNames : file_name' = [file_name EXCEPT ![t] = fname]
    /\ \E out \in UNION {GetApiKeysBody(secrets_state, secrets, environ),
                         {Return(cache.val)}} :
          /\ GetApiKeys(out)
          /\ api_keys' = [api_keys EXCEPT
                            ![t] = IF out.kind = "return" THEN out.val ELSE <<>>]
          /\ pc' = [pc EXCEPT ![t] = AfterKeys(out).pc]
          /\ idx' = [idx EXCEPT ![t] = AfterKeys(out).idx]
          /\ result' = [result EXCEPT ![t] = AfterKeys(out).result]
    /\ calls' = [calls EXCEPT ![t] = <<>>]
    /\ ends' = [ends EXCEPT ![t] = <<>>]
    /\ UNCHANGED <<sources, session, keys_ret, nloads, genai>>

\* A plausible bug: the client is configured once, with the first key, and
\* a later configure leaves it as it is.
ConfigureOnce(t) ==
    /\ pc[t] = "configure"
    /\ \E ev \in {Ok} \cup {Other(m) : m \in ErrMsgs} :
          /\ configured' = IF ev.kind = "ok" /\ configured = None
                           THEN api_keys[t][idx[t]]
                           ELSE configured
          /\ writer' = IF ev.kind = "ok" /\ configured = None THEN t ELSE writer
          /\ Step(t, "configure", ev, "model")
    /\ UNCHANGED <<sources, session, cache, first_ret, keys_ret, reads, nloads, ncalls,
                   file_name, api_keys>>

\* Line 51: genai.configure(api_key=key). It stores the key and sends no
\* request, so the service cannot answer it with ResourceExhausted.
Configure(t) ==
    /\ pc[t] = "configure"
    /\ \E ev \in {Ok} \cup {Other(m) : m \in ErrMsgs} :
          /\ configured' = IF ev.kind = "ok" THEN api_keys[t][idx[t]]
                           ELSE configured
          /\ writer' = IF ev.kind = "ok" THEN t ELSE writer
          /\ Step(t, "configure", ev, "model")
    /\ UNCHANGED <<sources, session, cache, first_ret, keys_ret, reads, nloads, ncalls,
                   file_name, api_keys>>

\* Lines 52-59: genai.GenerativeModel(...), content = [prompt], if file_name.
\* The constructor sends no request either.
MakeModel(t) ==
    /\ pc[t] = "model"
    /\ UNCHANGED genai
    /\ \E ev \in {Ok} \cup {Other(m) : m \in ErrMsgs} :
          Step(t, "GenerativeModel", ev,
               IF Truthy(file_name[t]) THEN "get_file" ELSE "generate")
    /\ UNCHANGED <<sources, session, cache, first_ret, keys_ret, reads, nloads, ncalls,
                   file_name, api_keys>>

\* Line 60: content.insert(0, genai.get_file(file_name)), a request to the
\* service, which may answer ResourceExhausted as it may for line 62.
GetFile(t) ==
    /\ pc[t] = "get_file"
    /\ UNCHANGED genai
    /\ \E ev \in {Ok, Quota} \cup {Other(m) : m \in ErrMsgs} :
          Step(t, "get_file", ev, "generate")
    /\ UNCHANGED <<sources, session, cache, first_ret, keys_ret, reads, nloads, ncalls,
                   file_name, api_keys>>

\* Lines 62-63: resp = model.generate_content(content) and the return of
\* its text. An exception of the call and one of reading resp.text are
\* inside the same try and end the attempt the same way.
Generate(t) ==
    /\ pc[t] = "generate"
    /\ UNCHANGED genai
    /\ \E ev \in {Quota} \cup {Other(m) : m \in ErrMsgs}
                         \cup {Text(x) : x \in RespTexts} :
          Step(t, "generate_content", ev, "done")
    /\ UNCHANGED <<sources, session, cache, first_ret, keys_ret, reads, nloads, ncalls,
                   file_name, api_keys>>

\* The caller has the outcome; the frame of the invocation is gone.
Finish(t) ==
    /\ pc[t] = "done"
    /\ pc' = [pc EXCEPT ![t] = "idle"]
    /\ file_name' = [file_name EXCEPT ![t] = None]
    /\ api_keys' = [api_keys EXCEPT ![t] = <<>>]
    /\ idx' = [idx EXCEPT ![t] = 0]
    /\ result' = [result EXCEPT ![t] = NoOutcome]
    /\ calls' = [calls EXCEPT ![t] = <<>>]
    /\ ends' = [ends EXCEPT ![t] = <<>>]
    /\ UNCHANGED <<sources, session, cache, first_ret, keys_ret, reads, nloads, ncalls, genai>>

(***************************************************************************)
(* Initial states.                                                         *)
(***************************************************************************)
SlotIds == {"secrets", "environ"} \X Slots

InitProcess ==
    /\ cache = NoCache
    /\ keys_ret = NoOutcome
    /\ reads = 0
    /\ first_ret = NoOutcome
    /\ nloads = 0
    /\ configured = None
    /\ writer = 0
    /\ ncalls = 0
    /\ file_name = [t \in Procs |-> None]
    /\ api_keys = [t \in Procs |-> <<>>]
    /\ idx = [t \in Procs |-> 0]
    /\ result = [t \in Procs |-> NoOutcome]
    /\ calls = [t \in Procs |-> <<>>]
    /\ ends = [t \in Procs |-> <<>>]
    /\ insights = Unset
    /\ df = Unset
    /\ uploaded = None
    /\ ui = "waiting"
    /\ shown = NotShown

\* The sources of SpecKeys: any of the eight slots may hold any value of
\* SlotVals, at most MaxFilled of them at once.
InitKeys ==
    /\ secrets_state \in SecretsStates
    /\ \E P \in {Q \in SUBSET SlotIds : Cardinality(Q) <= MaxFilled} :
         \E f \in [P -> SlotVals] :
            /\ secrets = [i \in Slots |->
                    IF <<"secrets", i>> \in P THEN f[<<"secrets", i>>] ELSE None]
            /\ environ = [i \in Slots |->
                    IF <<"environ", i>> \in P THEN f[<<"environ", i>>] ELSE None]
    /\ pc = [t \in Procs |-> IF t = 1 THEN "idle" ELSE "off"]
    /\ InitProcess

NextKeys == \E t \in Procs : CallGetApiKeys(t)

SpecKeys == InitKeys /\ [][NextKeys]_vars

\* The keys the environment slots hold in Spec, slot by slot.
EnvKeyOf == <<KeyA, KeyB, KeyC, KeyD>>

Min(a, b) == IF a < b THEN a ELSE b

\* The sources of Spec: the first n environment slots hold a key each; the
\* secret store is empty or repeats the first key; one invocation may run.
Init ==
    /\ secrets_state \in SecretsStates
    /\ \E s \in {None, KeyA} :
          secrets = [i \in Slots |-> IF i = 1 THEN s ELSE None]
    /\ \E n \in 0..Min(MaxEnvKeys, NumSlots) :
          environ = [i \in Slots |-> IF i <= n THEN EnvKeyOf[i] ELSE None]
    /\ pc = [t \in Procs |-> IF t = 1 THEN "idle" ELSE "off"]
    /\ InitProcess

Next ==
    \E t \in Procs :
          \/ CallGetApiKeys(t)
          \/ Invoke(t)
          \/ Configure(t)
          \/ MakeModel(t)
          \/ GetFile(t)
          \/ Generate(t)
          \/ Finish(t)

Spec == Init /\ [][Next]_vars

\* The sources of SpecConc: two keys in the environment and a secret store
\* that is empty. The process runs one invocation at a time (the second
\* caller is off) or two on separate threads, as two sessions of the
\* dashboard do.
InitConc ==
    /\ secrets_state = "ok"
    /\ secrets = [i \in Slots |-> None]
    /\ environ = [i \in Slots |-> IF i <= 2 THEN EnvKeyOf[i] ELSE None]
    /\ \E second \in {"idle", "off"} :
          pc = [t \in Procs |-> IF t = 1 THEN "idle" ELSE second]
    /\ InitProcess

\* The steps of the invocations, interleaved in any order.
NextConc ==
    \E t \in Procs :
          \/ Invoke(t)
          \/ Configure(t)
          \/ MakeModel(t)
          \/ GetFile(t)
          \/ Generate(t)
          \/ Finish(t)

SpecConc == InitConc /\ [][NextConc]_vars

(***************************************************************************)
(* The dashboard script (src/main.py)                                      *)
(***************************************************************************)
DataA == <<"A">>
DataB == <<"B">>
BadFile == <<"?">>

\* What the user may put into the uploader: nothing, one of two datasets,
\* or a file pandas cannot read.
Uploads == {None, DataA, DataB, BadFile}

\* Lines 307-310: a key that is not in the session state is set to None.
Initialised(v) == IF v = Unset THEN None ELSE v

\* Lines 332-341: the uploaded file is read into the session state; a read
\* that raises is reported and leaves the dataset as it was.
LoadData(up, old) == IF Truthy(up) /\ up # BadFile THEN up ELSE old

\* A plausible bug: whatever generate_with_failover returned is stored.
StoreInsightsAlways(old, ret) == ret

\* Lines 557-558: the result is stored unless it starts with "ERROR:".
StoreInsights(old, ret) ==
    IF ~StartsWith(ret, ERROR_PREFIX) THEN ret ELSE old

\* Lines 559-570: st.error(insights) for a failure, then the stored insights
\* are rendered when there are any.
Render(stored, ret) ==
    Shown(TRUE,
          IF Truthy(stored) THEN stored ELSE None,
          IF StartsWith(ret, ERROR_PREFIX) THEN ret ELSE None)

\* One run of the script, started by an event of the user: a rerun, a
\* change of the uploaded file, or (when the button is on the page) a click
\* on "Generate AI Insights". Lines 307-341, and lines 344-571 up to the
\* call of generate_with_failover when the button was clicked.
ScriptRun(t) ==
    /\ ui = "waiting"
    /\ pc[t] = "idle"
    /\ nloads < MaxRuns
    /\ nloads' = nloads + 1
    /\ \E clicked \in {FALSE} \cup {c \in {TRUE} : shown.button /\ ncalls < MaxCalls} :
       \E up \in IF clicked THEN {uploaded} ELSE Uploads :
       \E out \in UNION {GetApiKeysBody(secrets_state, secrets, environ),
                         {Return(cache.val)}} :
          /\ GetApiKeys(out)
          /\ keys_ret' = out
          /\ uploaded' = up
          /\ insights' = Initialised(insights)
          /\ IF out.kind = "raise"
             THEN \* line 325 raised: the run ends there
                  /\ df' = Initialised(df)
                  /\ ui' = "waiting"
                  /\ shown' = NotShown
             ELSE /\ df' = LoadData(up, Initialised(df))
                  /\ IF df' # None /\ out.val # <<>>
                     THEN IF clicked
                          THEN ui' = "button" /\ shown' = NotShown
                          ELSE /\ ui' = "waiting"
                               /\ shown' = Render(insights', <<>>)
                     ELSE ui' = "waiting" /\ shown' = NotShown
    /\ UNCHANGED <<sources, genai, ncalls, locals>>

\* Line 555: insights = generate_with_failover(prompt), the call.
ClickInvoke(t) ==
    /\ ui = "button"
    /\ Invoke(t)
    /\ file_name'[t] = None

\* Lines 555-570: generate_with_failover has ended; the handler stores and
\* renders. An exception would end the run with nothing stored.
InsightsHandler(t) ==
    /\ ui = "button"
    /\ pc[t] = "done"
    /\ ui' = "waiting"
    /\ IF result[t].kind = "return"
       THEN /\ insights' = StoreInsights(insights, result[t].val)
            /\ shown' = Render(insights', result[t].val)
       ELSE /\ insights' = insights
            /\ shown' = NotShown
    /\ pc' = [pc EXCEPT ![t] = "idle"]
    /\ file_name' = [file_name EXCEPT ![t] = None]
    /\ api_keys' = [api_keys EXCEPT ![t] = <<>>]
    /\ idx' = [idx EXCEPT ![t] = 0]
    /\ result' = [result EXCEPT ![t] = NoOutcome]
    /\ calls' = [calls EXCEPT ![t] = <<>>]
    /\ ends' = [ends EXCEPT ![t] = <<>>]
    /\ UNCHANGED <<sources, cache, first_ret, keys_ret, reads, nloads, ncalls,
                   genai, df, uploaded>>

\* The sources of SpecUI: up to two keys in the environment, a secret store
\* in any of its states; one session.
InitUI ==
    /\ secrets_state \in SecretsStates
    /\ secrets = [i \in Slots |-> None]
    /\ \E n \in 0..2 :
          environ = [i \in Slots |-> IF i <= n THEN EnvKeyOf[i] ELSE None]
    /\ pc = [t \in Procs |-> IF t = 1 THEN "idle" ELSE "off"]
    /\ InitProcess

NextUI ==
    \E t \in Procs :
          \/ ScriptRun(t)
          \/ ClickInvoke(t)
          \/ Configure(t)
          \/ MakeModel(t)
          \/ Generate(t)
          \/ InsightsHandler(t)

SpecUI == InitUI /\ [][NextUI]_vars

(***************************************************************************)
(* Vocabulary of the properties.                                           *)
(***************************************************************************)
Last(s) == s[Len(s)]

CallsOf(t, fn) == SelectSeq(calls[t], LAMBDA c : c.fn = fn)

KeysOf(cs) == [i \in 1..Len(cs) |-> cs[i].key]

GenCount(t) == Len(CallsOf(t, "generate_content"))

\* The position of a key in the list of the invocation.
Position(t, k) == CHOOSE i \in 1..Len(api_keys[t]) : api_keys[t][i] = k

NonBlankText(x) == x # None /\ ~IsBlank(x)

\* The attempts before the k-th each ended with a quota error.
QuotaBefore(t, k) == \A i \in 1..(k - 1) : ends[t][i].kind = "quota"

\* How many of the first n attempts ended with a quota error raised by fn.
QuotaAt(t, fn, n) ==
    Cardinality({i \in 1..n : ends[t][i].kind = "quota" /\ ends[t][i].step = fn})

\* The invocation returned the text of a response that was not blank.
Succeeded(t) ==
    /\ pc[t] = "done"
    /\ ends[t] # <<>>
    /\ Last(ends[t]).kind = "text"
    /\ NonBlankText(Last(ends[t]).val)

\* Every call of the log belongs to one of the first k keys, every attempt
\* begins with its configure, and the attempts follow the list order.
WithinFirst(t, k) ==
    /\ KeysOf(CallsOf(t, "configure")) = SubSeq(api_keys[t], 1, k)
    /\ \A p \in 1..Len(calls[t]) :
          /\ Position(t, calls[t][p].key) <= k
          /\ \/ calls[t][p].fn = "configure"
             \/ p > 1 /\ calls[t][p - 1].key = calls[t][p].key

\* The case of C1: k - 1 quota errors, then a response with a text.
RotatedToSuccess(t) ==
    /\ Succeeded(t)
    /\ QuotaBefore(t, Len(ends[t]))

\* The case of C3: every key of a list that is not empty ended in a quota
\* error.
AllExhausted(t) ==
    /\ api_keys[t] # <<>>
    /\ Len(ends[t]) = Len(api_keys[t])
    /\ \A i \in 1..Len(ends[t]) : ends[t][i].kind = "quota"

(***************************************************************************)
(* C1                                                                      *)
(***************************************************************************)
\* C1 as stated: when the attempts with c1..c(k-1) each raise a quota error
\* and the attempt with ck returns a text that is not blank, the result is
\* that text stripped, generate_content was called exactly k times,
\* configure was called with c1..ck in that order, each before the calls of
\* its own attempt, and no key after ck was configured or used.
C1_Original ==
    \A t \in Procs :
        RotatedToSuccess(t) =>
            LET k == Len(ends[t]) IN
            /\ result[t] = Return(Strip(Last(ends[t]).val))
            /\ GenCount(t) = k
            /\ WithinFirst(t, k)

\* C1 amended: the same, but generate_content was called once for each
\* attempt that reached it: k times less the attempts whose quota error was
\* raised by get_file, so exactly k times when every quota error came from
\* generate_content itself.
C1_Failover ==
    \A t \in Procs :
        RotatedToSuccess(t) =>
            LET k == Len(ends[t]) IN
            /\ result[t] = Return(Strip(Last(ends[t]).val))
            /\ GenCount(t) = k - QuotaAt(t, "get_file", k)
            /\ QuotaAt(t, "generate_content", k) = k - 1 => GenCount(t) = k
            /\ WithinFirst(t, k)
            /\ configured = api_keys[t][k]

C1_Witness ==
    /\ RotatedToSuccess(1)
    /\ Len(ends[1]) = 2
    /\ Len(api_keys[1]) = 3
    /\ ends[1][1].step = "generate_content"
    /\ Last(ends[1]).val = <<" ", "o", "k", "\n">>
    /\ result[1] = Return(<<"o", "k">>)

C3_Original ==
    \A t \in Procs :
        AllExhausted(t) =>
            /\ pc[t] = "done"
            /\ result[t] = Return(ALL_LIMITED)
            /\ ALL_LIMITED # NO_KEYS
            /\ WithinFirst(t, Len(api_keys[t]))
            /\ GenCount(t) = Len(api_keys[t])

\* C3 amended: the same, but generate_content was called once for each
\* key whose attempt reached it: N times less the attempts whose quota
\* error was raised by get_file.
C3_Exhausted ==
    \A t \in Procs :
        AllExhausted(t) =>
            LET n == Len(api_keys[t]) IN
            /\ pc[t] = "done"
            /\ result[t] = Return(ALL_LIMITED)
            /\ ALL_LIMITED # NO_KEYS
            /\ WithinFirst(t, n)
            /\ Len(CallsOf(t, "configure")) = n
            /\ GenCount(t) = n - QuotaAt(t, "get_file", n)
            /\ QuotaAt(t, "generate_content", n) = n => GenCount(t) = n

C3_Witness ==
    /\ AllExhausted(1)
    /\ Len(api_keys[1]) = 3
    /\ QuotaAt(1, "get_file", 3) = 1
    /\ result[1] = Return(ALL_LIMITED)

(***************************************************************************)
(* C4                                                                      *)
(***************************************************************************)
\* C4: when get_api_keys returns an empty list the invocation returns
\* "ERROR: No API keys configured." at once, whatever its file_name: it
\* makes no call of configure, get_file or generate_content, and an
\* invocation that is inside the loop has a list that is not empty.
C4_NoKeys ==
    \A t \in Procs :
        /\ pc[t] \in {"configure", "model", "get_file", "generate"}
              => api_keys[t] # <<>>
        /\ pc[t] = "done" /\ result[t].kind = "return" /\ api_keys[t] = <<>>
              => /\ result[t] = Return(NO_KEYS)
                 /\ calls[t] = <<>>
                 /\ ends[t] = <<>>

C4_Witness ==
    /\ pc[1] = "done"
    /\ cache = [valid |-> TRUE, val |-> <<>>]
    /\ api_keys[1] = <<>>
    /\ file_name[1] = <<"f">>
    /\ result[1] = Return(NO_KEYS)

(***************************************************************************)
(* C5                                                                      *)
(***************************************************************************)
\* C5: a response ends the invocation; when its text is None, empty or
\* whitespace only the result is the "Empty response" string and no key
\* after the one that answered is configured or tried, however many are
\* left.
C5_EmptyResponse ==
    \A t \in Procs :
        \A i \in 1..Len(ends[t]) :
            ends[t][i].kind = "text" =>
                /\ i = Len(ends[t])
                /\ pc[t] = "done"
                /\ ~NonBlankText(ends[t][i].val) =>
                      /\ result[t] = Return(EMPTY_RESPONSE)
                      /\ idx[t] = i
                      /\ WithinFirst(t, i)

C5_Witness ==
    /\ pc[1] = "done"
    /\ Len(api_keys[1]) = 3
    /\ ends[1] = <<[step |-> "generate_content", kind |-> "text",
                    val |-> <<" ", "\n">>]>>
    /\ result[1] = Return(EMPTY_RESPONSE)
    /\ Len(CallsOf(1, "configure")) = 1

(***************************************************************************)
(* C6                                                                      *)
(***************************************************************************)
\* C6 as stated: an invocation never raises to its caller, whatever the
\* credential sources and the downstream calls do: it ends by returning a
\* string, and every failure is an "ERROR:"-tagged string.
C6_NeverRaises ==
    \A t \in Procs :
        pc[t] = "done" =>
            /\ result[t].kind = "return"
            /\ ~Succeeded(t) => StartsWith(result[t].val, ERROR_PREFIX)

(***************************************************************************)
(* C7                                                                      *)
(***************************************************************************)
\* C7 as stated: the returned string begins with "ERROR:" if and only if
\* the invocation failed, for every generated text.
C7_Original ==
    \A t \in Procs :
        pc[t] = "done" /\ result[t].kind = "return" =>
            (StartsWith(result[t].val, ERROR_PREFIX) <=> ~Succeeded(t))

\* C7 amended: every invocation that failed returns a string that begins
\* with "ERROR:"; one that succeeded returns the stripped generated text,
\* which begins with "ERROR:" exactly when the stripped generated text
\* itself does.
C7_ErrorTag ==
    \A t \in Procs :
        pc[t] = "done" /\ result[t].kind = "return" =>
            /\ ~Succeeded(t) => StartsWith(result[t].val, ERROR_PREFIX)
            /\ Succeeded(t) =>
                  LET text == Strip(Last(ends[t]).val) IN
                  /\ result[t].val = text
                  /\ StartsWith(result[t].val, ERROR_PREFIX)
                        <=> StartsWith(text, ERROR_PREFIX)

C7_Witness ==
    /\ Succeeded(1)
    /\ Last(ends[1]).val = <<" ">> \o ERROR_PREFIX \o <<" ", "x">>
    /\ result[1] = Return(ERROR_PREFIX \o <<" ", "x">>)

(***************************************************************************)
(* C8, C9, C10: get_api_keys, under SpecKeys                               *)
(***************************************************************************)
Elems(s) == {s[i] : i \in 1..Len(s)}

NoDuplicates(s) == \A i, j \in 1..Len(s) : i # j => s[i] # s[j]

\* The values the slots hold: a slot that is absent holds none.
SlotValues == {secrets[i] : i \in Slots} \cup {environ[i] : i \in Slots}

DistinctNonBlank == {v \in SlotValues : NonBlankText(v)}

\* C8 as stated: with a secret store that can be read, the list returned
\* holds exactly the N distinct non-blank values of the eight slots, each
\* of them once.
C8_DistinctNonBlank ==
    keys_ret.kind = "return" /\ secrets_state = "ok" =>
        /\ Len(keys_ret.val) = Cardinality(DistinctNonBlank)
        /\ Elems(keys_ret.val) = DistinctNonBlank
        /\ NoDuplicates(keys_ret.val)

\* C9 as stated: the list returned holds no duplicate and no entry that is
\* empty or whitespace only.
C9_NoDuplicateNoBlank ==
    keys_ret.kind = "return" =>
        /\ NoDuplicates(keys_ret.val)
        /\ \A i \in 1..Len(keys_ret.val) : NonBlankText(keys_ret.val[i])

\* C10 as stated: get_api_keys never raises; when the secret store cannot
\* be read it returns the values of the environment slots that are not
\* empty.
C10_StoreFailureSwallowed ==
    /\ keys_ret.kind # "raise"
    /\ keys_ret.kind = "return" /\ secrets_state # "ok" =>
          Elems(keys_ret.val) = {environ[i] : i \in Slots} \ {None, <<>>}

(***************************************************************************)
(* C11: the order of the list, under SpecKeys                              *)
(***************************************************************************)
\* The values found in reading order: the secret slots 1 to 4 of a store
\* that can be read, then the environment slots 1 to 4.
ReadInOrder ==
    (IF secrets_state = "ok"
     THEN SelectSeq([i \in Slots |-> secrets[i]], Truthy)
     ELSE <<>>)
    \o SelectSeq([i \in Slots |-> environ[i]], Truthy)

\* A list without the entries that repeat an earlier one.
RECURSIVE FirstOccurrences(_)
FirstOccurrences(s) ==
    IF s = <<>> THEN <<>>
    ELSE LET init == FirstOccurrences(SubSeq(s, 1, Len(s) - 1)) IN
         IF Last(s) \in Elems(init) THEN init ELSE Append(init, Last(s))

\* C11 as stated: the list returned is ordered by first discovery: a key
\* found earlier in the reading order (secret slots 1 to 4, then
\* environment slots 1 to 4) comes earlier in the list.
C11_DiscoveryOrder ==
    keys_ret.kind = "return" =>
        keys_ret.val = FirstOccurrences(ReadInOrder)

(***************************************************************************)
(* C12: the cache of get_api_keys, under Spec                              *)
(***************************************************************************)
\* C12 as stated: with no cache clear, the sources are read on the first
\* call of get_api_keys only, and every call ends as the first one did: the
\* key-status check of the script and every invocation of
\* generate_with_failover have the list of the first call, in its order.
C12_ReadOnce ==
    /\ reads <= 1
    /\ keys_ret.kind # "none" => keys_ret = first_ret
    /\ \A t \in Procs :
          pc[t] \in {"configure", "model", "get_file", "generate", "done"}
              => first_ret \in {Return(api_keys[t]), Raise(SecretsError)}

(***************************************************************************)
(* C13: the process-global credential, under SpecConc                      *)
(***************************************************************************)
\* The invocation has configured a key and its attempt has not ended.
Configured(t) == pc[t] \in {"model", "get_file", "generate"}

\* An attempt of the invocation is in flight.
InFlight(t) == pc[t] \in {"configure", "model", "get_file", "generate"}

\* The process runs no second invocation.
Sequential == \A u \in Procs \ {1} : pc[u] = "off"

\* The requests the invocation sent under a credential that was not the
\* key of their attempt.
Foreign(t) ==
    {p \in 1..Len(calls[t]) :
        /\ calls[t][p].fn \in {"get_file", "generate_content"}
        /\ calls[t][p].cred # calls[t][p].key}

\* C13: genai.configure writes a credential that all invocations share.
\* An invocation whose attempt finds another credential than the key it
\* configured finds the one written last by the other invocation, which
\* happens only when two invocations run; in a process with one sequential
\* invocation every request is sent under the key of its own attempt, the
\* attempts follow each other in list order and at most one is in flight.
C13_SharedCredential ==
    /\ \A t \in Procs :
          Configured(t) /\ configured # api_keys[t][idx[t]] =>
              /\ writer \in Procs \ {t}
              /\ pc[writer] # "off"
    /\ \A t \in Procs : Foreign(t) # {} => ~Sequential
    /\ Sequential =>
          /\ Cardinality({t \in Procs : InFlight(t)}) <= 1
          /\ \A t \in Procs :
                /\ Configured(t) => configured = api_keys[t][idx[t]]
                /\ \A p \in 2..Len(calls[t]) :
                      Position(t, calls[t][p - 1].key)
                          <= Position(t, calls[t][p].key)

\* Invocation 1 has sent its generate call, for its key, under the key the
\* other invocation had configured in between.
C13_Witness ==
    /\ pc[1] = "done"
    /\ calls[1] # <<>>
    /\ Last(calls[1]).fn = "generate_content"
    /\ Last(calls[1]).key = KeysOf(CallsOf(1, "configure"))[idx[1]]
    /\ Last(calls[1]).cred # Last(calls[1]).key
    /\ writer = 2
    /\ \E p \in 1..Len(calls[2]) :
          /\ calls[2][p].fn = "configure"
          /\ calls[2][p].key = Last(calls[1]).cred

(***************************************************************************)
(* C14: the stored insights, under SpecUI                                  *)
(***************************************************************************)
\* The handler of the button acts on the outcome of invocation t.
HandlerStep(t) == ui = "button" /\ pc[t] = "done" /\ ui' = "waiting"

\* The outcome is no text to store: an "ERROR:" string or an exception.
FailedOutcome(t) ==
    \/ result[t].kind = "raise"
    \/ StartsWith(result[t].val, ERROR_PREFIX)

\* Once the script has run, the stored insights are None or a string that
\* does not start with "ERROR:".
InsightsClean ==
    \/ nloads = 0 /\ insights = Unset
    \/ insights = None
    \/ insights \notin {Unset, None} /\ ~StartsWith(insights, ERROR_PREFIX)

\* What a step may do to the stored insights.
InsightsStep ==
    /\ insights' # insights =>
          \/ insights = Unset /\ insights' = None
          \/ \E t \in Procs :
                /\ HandlerStep(t)
                /\ ~FailedOutcome(t)
                /\ insights' = result[t].val
    /\ \A t \in Procs :
          HandlerStep(t) /\ FailedOutcome(t) =>
              /\ insights' = insights
              /\ result[t].kind = "return" =>
                    /\ shown'.error = result[t].val
                    /\ Truthy(insights) => shown'.insights = insights
    /\ df' # df /\ df # Unset => insights' = insights

\* C14: across script runs, uploads and clicks on "Generate AI Insights",
\* st.session_state.insights is None or a string that does not start with
\* "ERROR:"; it is written only with a result of generate_with_failover
\* that is no "ERROR:" string; a failed generation shows its error and
\* leaves the stored insights as they were, still rendered, and so does
\* the upload of another dataset.
C14_StoredInsights == []InsightsClean /\ [][InsightsStep]_vars

\* A generation has failed after an earlier one had succeeded and another
\* dataset had been loaded since: the error and the earlier insights are
\* both on the page.
C14_Witness ==
    /\ ui = "waiting"
    /\ ncalls = 2
    /\ df = DataB
    /\ insights = <<"o", "k">>
    /\ shown = Shown(TRUE, <<"o", "k">>, ALL_LIMITED)

====
